---- MODULE Spec2Model ----
(***************************************************************************)
(* State-machine model of four subsystems of NetBox / DCIM-IITH:           *)
(*   - VLAN groups and VLANs          (ipam/models/vlans.py)               *)
(*   - the cached-value search backend (netbox/search/backends.py)         *)
(*   - the script runner run_script    (extras/scripts.py)                 *)
(*   - CSV bulk import                 (utilities/forms/bulk_import.py)    *)
(* Each subsystem has its own specification (SpecVlan, SpecSearch,         *)
(* SpecScript, SpecImport); the variables of the other subsystems stay at  *)
(* their initial values.                                                   *)
(***************************************************************************)
EXTENDS Integers, Sequences, FiniteSets

VARIABLES
    groups,     \* VLANGroup table: group id -> row, or NoRow
    vlans,      \* VLAN table: vlan id -> row, or NoRow
    query,      \* result of the last get_available_vids / get_next_available_vid call
    objects,    \* searchable objects: object key -> field values, or NoRow
    perms,      \* objects the user may view (object-level 'view' permission)
    cache,      \* CachedValue table: set of rows
    event,      \* the last signal handled or search() call made, with its result
    jobs,       \* Job table: job id -> row, or NoRow
    db,         \* database contents the scripts work on
    run,        \* record of the last run_script call
    regions,    \* Region table filled by bulk import: set of rows
    pending,    \* bulk import request being posted, or NoRequest
    response,   \* outcome of the last bulk import request
    sites,      \* table served by the REST API: pk -> row, or NoRow
    changelog,  \* ObjectChange table: sequence of rows, oldest first
    reply,      \* the last REST API request and its response
    users,      \* User table: pk -> row
    tokens,     \* Token table: pk -> row, or NoRow
    listing     \* the last filterset evaluated, with its result

vlanVars   == <<groups, vlans, query>>
searchVars == <<objects, perms, cache, event>>
scriptVars == <<jobs, db, run>>
importVars == <<regions, pending, response>>
restVars   == <<sites, changelog, reply>>
filterVars == <<users, tokens, listing>>
vars       == <<groups, vlans, query, objects, perms, cache, event,
                jobs, db, run, regions, pending, response,
                sites, changelog, reply, users, tokens, listing>>

\* An absent table row (rows are records; an absent row has no fields but this one)
NoRow  == [exists |-> FALSE]
None   == "None"

\* SetToSeq: sorted(set) -- the ascending sequence of a finite set of integers
RECURSIVE SortedSeq(_)
SortedSeq(S) ==
    IF S = {} THEN <<>>
    ELSE LET m == CHOOSE x \in S : \A y \in S : x <= y
         IN  <<m>> \o SortedSeq(S \ {m})

Range(s) == { s[i] : i \in 1..Len(s) }

(***************************************************************************)
(*                         VLAN groups and VLANs                           *)
(***************************************************************************)

\* Lowest VLAN ID (ipam constant VLAN_VID_MIN, "1-4094")
VLAN_VID_MIN == 1
\* Highest VLAN ID: 4094 in the program, scaled down so that a group's whole
\* range can be taken by VLANs
VLAN_VID_MAX == 3

GroupIds  == {"g1", "g2"}
VlanIds   == {"v1", "v2"}
VlanNames == {"a", "b"}
Vids      == VLAN_VID_MIN..VLAN_VID_MAX
\* Values a form can submit for a VID field (one below and one above the valid range)
VidInputs == (VLAN_VID_MIN - 1)..(VLAN_VID_MAX + 1)

\* MinValueValidator(VLAN_VID_MIN), MaxValueValidator(VLAN_VID_MAX)
VidFieldValid(v) == VLAN_VID_MIN <= v /\ v <= VLAN_VID_MAX

\* VLAN.objects.filter(group=g)
VlansOfGroup(g) == { v \in VlanIds : vlans[v] # NoRow /\ vlans[v].group = g }

\* VLANGroup.full_clean(): field validators, then clean()
VLANGroupClean(min_vid, max_vid) ==
    /\ VidFieldValid(min_vid)
    /\ VidFieldValid(max_vid)
    /\ ~(max_vid < min_vid)

\* VLAN.clean(): the group's min/max VID check (the VLANs modelled have no site,
\* so the scope check above it never fires)
VLANClean(group, vid) ==
    group # None =>
        (groups[group].min_vid <= vid /\ vid <= groups[group].max_vid)

\* VLAN.Meta.constraints: (group, vid) and (group, name) are unique; a
\* constraint over a NULL group does not apply
VLANUniqueVidOnly(self, group, vid, name) ==
    group # None =>
        \A v \in VlansOfGroup(group) \ {self} : vlans[v].vid # vid

VLANUnique(self, group, vid, name) ==
    group # None =>
        \A v \in VlansOfGroup(group) \ {self} :
            vlans[v].vid # vid /\ vlans[v].name # name

\* VLAN.full_clean(): field validators, clean(), unique constraints
VLANFullClean(self, group, vid, name) ==
    /\ VidFieldValid(vid)
    /\ group # None => groups[group] # NoRow
    /\ VLANClean(group, vid)
    /\ VLANUnique(self, group, vid, name)

\* VLANGroup.get_available_vids()
GetAvailableVidsOffByOne(g) ==
    SortedSeq({ vid \in groups[g].min_vid..(groups[g].max_vid - 1) :
                  \A v \in VlansOfGroup(g) : vlans[v].vid # vid })

GetAvailableVids(g) ==
    LET available_vlans == groups[g].min_vid..((groups[g].max_vid + 1) - 1)
        taken == { vlans[v].vid : v \in VlansOfGroup(g) }
    IN  SortedSeq(available_vlans \ taken)

\* VLANGroup.get_next_available_vid()
\* (the optional result is a set: {vid}, or {} for None)
GetNextAvailableVid(g) ==
    LET available_vids == GetAvailableVids(g)
    IN  IF available_vids # <<>> THEN {available_vids[1]} ELSE {}

NoQuery == [group |-> None]

\* The other subsystems are not touched by the VLAN operations
VlanFrame == UNCHANGED <<searchVars, scriptVars, importVars, restVars, filterVars>>

\* A validated creation of a VLAN group
CreateGroup(g, min_vid, max_vid) ==
    /\ groups[g] = NoRow
    /\ VLANGroupClean(min_vid, max_vid)
    /\ groups' = [groups EXCEPT ![g] = [min_vid |-> min_vid, max_vid |-> max_vid]]
    /\ query' = NoQuery
    /\ UNCHANGED vlans
    /\ VlanFrame

\* A validated edit of a VLAN group's child VID limits
EditGroup(g, min_vid, max_vid) ==
    /\ groups[g] # NoRow
    /\ VLANGroupClean(min_vid, max_vid)
    /\ groups' = [groups EXCEPT ![g] = [min_vid |-> min_vid, max_vid |-> max_vid]]
    /\ query' = NoQuery
    /\ UNCHANGED vlans
    /\ VlanFrame

\* Deleting a VLAN group: VLAN.group is on_delete=PROTECT
DeleteGroup(g) ==
    /\ groups[g] # NoRow
    /\ VlansOfGroup(g) = {}
    /\ groups' = [groups EXCEPT ![g] = NoRow]
    /\ query' = NoQuery
    /\ UNCHANGED vlans
    /\ VlanFrame

\* A validated creation of a VLAN
CreateVLAN(v, group, vid, name) ==
    /\ vlans[v] = NoRow
    /\ VLANFullClean(v, group, vid, name)
    /\ vlans' = [vlans EXCEPT ![v] = [group |-> group, vid |-> vid, name |-> name]]
    /\ query' = NoQuery
    /\ UNCHANGED groups
    /\ VlanFrame

\* A validated edit of a VLAN
EditVLAN(v, group, vid, name) ==
    /\ vlans[v] # NoRow
    /\ VLANFullClean(v, group, vid, name)
    /\ vlans' = [vlans EXCEPT ![v] = [group |-> group, vid |-> vid, name |-> name]]
    /\ query' = NoQuery
    /\ UNCHANGED groups
    /\ VlanFrame

DeleteVLAN(v) ==
    /\ vlans[v] # NoRow
    /\ vlans' = [vlans EXCEPT ![v] = NoRow]
    /\ query' = NoQuery
    /\ UNCHANGED groups
    /\ VlanFrame

\* A caller asks a group for its available VIDs and its next available VID
QueryAvailable(g) ==
    /\ groups[g] # NoRow
    /\ query' = [group |-> g,
                 vids  |-> GetAvailableVids(g),
                 next  |-> GetNextAvailableVid(g)]
    /\ UNCHANGED <<groups, vlans>>
    /\ VlanFrame

VlanInit ==
    /\ groups = [g \in GroupIds |-> NoRow]
    /\ vlans  = [v \in VlanIds |-> NoRow]
    /\ query  = NoQuery

VlanNext ==
    \/ \E g \in GroupIds, lo \in VidInputs, hi \in VidInputs : CreateGroup(g, lo, hi)
    \/ \E g \in GroupIds, lo \in VidInputs, hi \in VidInputs : EditGroup(g, lo, hi)
    \/ \E g \in GroupIds : DeleteGroup(g)
    \/ \E v \in VlanIds, g \in GroupIds \cup {None}, vid \in VidInputs, n \in VlanNames :
          CreateVLAN(v, g, vid, n)
    \/ \E v \in VlanIds, g \in GroupIds \cup {None}, vid \in VidInputs, n \in VlanNames :
          EditVLAN(v, g, vid, n)
    \/ \E v \in VlanIds : DeleteVLAN(v)
    \/ \E g \in GroupIds : QueryAvailable(g)

(***************************************************************************)
(*                     The cached-value search backend                     *)
(***************************************************************************)

\* Upper limit of the rows the base query retrieves: 1000 in the program,
\* scaled down so that the cache can hold more matching rows than the limit
MAX_RESULTS == 3
\* The buffer of new rows is flushed to the table once it holds this many
FLUSH_SIZE == 2000

\* Strings are sequences of characters
EmptyStr == <<>>

\* The registry of search indexers: model -> <<field name, weight>>, in order.
\* A model that is not in the registry has no indexer (get_indexer raises KeyError).
LabIndexFields == << <<"name", 100>>, <<"facility", 100>>, <<"slug", 110>>, <<"description", 500>> >>
DeviceRoleIndexFields == << <<"name", 100>>, <<"slug", 110>> >>

IndexedModels == {"lab", "devicerole"}
IndexFields(model) ==
    IF model = "lab" THEN LabIndexFields ELSE DeviceRoleIndexFields

\* The objects of the model: a lab, a device role and an object of a model
\* without a search indexer; all three have primary key 1
Lab1  == [model |-> "lab", pk |-> 1]
Role1 == [model |-> "devicerole", pk |-> 1]
Job1  == [model |-> "job", pk |-> 1]
ObjKeys == {Lab1, Role1, Job1}

\* The field values an object may be saved with
FieldValues(o) ==
    IF o.model = "lab"
      THEN [name : {<<"a">>, <<"a", "b">>}, facility : {<<>>, <<"a">>},
            slug : {<<"a">>}, description : {<<"b">>}]
    ELSE IF o.model = "devicerole"
      THEN [name : {<<"a">>, <<"b">>}, slug : {<<"a">>}]
    ELSE [name : {<<"a">>}]

Users == {"u1"}

\* SearchIndex.to_cache(instance): one value per indexed field, in the order of
\* `fields`, leaving out the fields whose value is empty
RECURSIVE ToCacheFrom(_, _, _)
ToCacheFrom(fields, values, i) ==
    IF i > Len(fields) THEN <<>>
    ELSE LET name   == fields[i][1]
             weight == fields[i][2]
             rest   == ToCacheFrom(fields, values, i + 1)
         IN  IF values[name] # EmptyStr
               THEN <<[name |-> name, type |-> "str", weight |-> weight, value |-> values[name]]>> \o rest
               ELSE rest

ToCache(model, values) == ToCacheFrom(IndexFields(model), values, 1)

\* CachedValue.objects.filter(object_type=ct, object_id=pk)
RowsOf(table, o) ==
    { r \in table : r.object_type = o.model /\ r.object_id = o.pk }

\* CachedValueSearchBackend.remove(instance): the table afterwards
RemoveKeepsRows(table, o) == table

Remove(table, o) ==
    IF o.model \notin IndexedModels
      THEN table                                 \* get_indexer: KeyError, return
      ELSE table \ RowsOf(table, o)

\* CachedValue.objects.bulk_create(buffer): every element of the buffer becomes
\* a new row. A row's `copy` tells it apart from the rows holding the same
\* values that are in the table already (it stands for the row's own key).
RECURSIVE BulkCreate(_, _)
BulkCreate(table, buffer) ==
    IF buffer = <<>> THEN table
    ELSE LET new    == Head(buffer)
             same   == { r \in table : [r EXCEPT !.copy = 1] = new }
             stored == [new EXCEPT !.copy = Cardinality(same) + 1]
         IN  BulkCreate(table \cup {stored}, Tail(buffer))

\* (the CachedValue rows built from the indexer's values)
NewRows(o, values) ==
    LET fields == ToCache(o.model, values)
    IN  [i \in 1..Len(fields) |->
            [object_type |-> o.model, object_id |-> o.pk,
             field  |-> fields[i].name,
             type   |-> fields[i].type,
             weight |-> fields[i].weight,
             value  |-> fields[i].value,
             copy   |-> 1]]

\* CachedValueSearchBackend.cache(instance, remove_existing) for one instance
CacheNeverRemoves(table, o, values, remove_existing) ==
    IF o.model \notin IndexedModels
      THEN table
      ELSE BulkCreate(table, NewRows(o, values))

Cache(table, o, values, remove_existing) ==
    IF o.model \notin IndexedModels
      THEN table                                 \* get_indexer: KeyError, break
      ELSE LET wiped   == IF remove_existing THEN Remove(table, o) ELSE table
               buffer  == NewRows(o, values)
               \* flush inside the loop when the buffer is full
               flushed == IF Len(buffer) >= FLUSH_SIZE THEN BulkCreate(wiped, buffer) ELSE wiped
               left    == IF Len(buffer) >= FLUSH_SIZE THEN <<>> ELSE buffer
           IN  \* final buffer flush
               IF left # <<>> THEN BulkCreate(flushed, left) ELSE flushed

\* SearchBackend.caching_handler(sender, instance, created)
CachingHandler(table, o, values, created) == Cache(table, o, values, ~created)

\* SearchBackend.removal_handler(sender, instance)
RemovalHandler(table, o) == Remove(table, o)

NoEvent == [op |-> "none"]

\* The other subsystems are not touched by the search operations
SearchFrame == UNCHANGED <<vlanVars, scriptVars, importVars, restVars, filterVars>>

\* An object is created or updated and saved: post_save -> caching_handler
SaveObject(o, values) ==
    LET created == (objects[o] = NoRow)
    IN  /\ objects' = [objects EXCEPT ![o] = values]
        /\ cache' = CachingHandler(cache, o, values, created)
        /\ event' = [op |-> "post_save", obj |-> o, created |-> created,
                     changed |-> (~created /\ objects[o] # values)]
        /\ UNCHANGED perms
        /\ SearchFrame

\* An object is deleted: post_delete -> removal_handler
DeleteObject(o) ==
    /\ objects[o] # NoRow
    /\ objects' = [objects EXCEPT ![o] = NoRow]
    /\ cache' = RemovalHandler(cache, o)
    /\ perms' = perms \ {o}
    /\ event' = [op |-> "post_delete", obj |-> o, removed |-> Cardinality(RowsOf(cache, o))]
    /\ SearchFrame

\* The user is granted, or loses, the permission to view an object
GrantView(o) ==
    /\ objects[o] # NoRow
    /\ o \notin perms
    /\ perms' = perms \cup {o}
    /\ event' = NoEvent
    /\ UNCHANGED <<objects, cache>>
    /\ SearchFrame

RevokeView(o) ==
    /\ o \in perms
    /\ perms' = perms \ {o}
    /\ event' = NoEvent
    /\ UNCHANGED <<objects, cache>>
    /\ SearchFrame

\* The lookup types of a search
LookupTypes == {"icontains", "istartswith", "iendswith"}
PARTIAL     == "icontains"
STARTSWITH  == "istartswith"
ENDSWITH    == "iendswith"

\* value__<lookup>=q on a cached value
Matches(value, q, lookup) ==
    IF lookup = "icontains"
      THEN \E i \in 1..(Len(value) - Len(q) + 1) : SubSeq(value, i, i + Len(q) - 1) = q
    ELSE IF lookup = "istartswith"
      THEN Len(q) <= Len(value) /\ SubSeq(value, 1, Len(q)) = q
    ELSE Len(q) <= Len(value) /\ SubSeq(value, Len(value) - Len(q) + 1, Len(value)) = q

\* The query filter of search(): the value lookup, the object types when given,
\* and string values only for a prefix or suffix lookup. (No query of the model
\* parses as an IP network, so the CIDR alternative is never added.)
QueryFilter(r, value, object_types, lookup) ==
    /\ Matches(r.value, value, lookup)
    /\ object_types # {} => r.object_type \in object_types
    /\ lookup \in {STARTSWITH, ENDSWITH} => r.type = "str"

\* The object a result row's `object` is prefetched as: the object, or nothing
\* (None) when it does not exist or the user may not view it
ObjectOf(r, user) ==
    LET o == [model |-> r.object_type, pk |-> r.object_id]
    IN  IF o \in ObjKeys /\ objects[o] # NoRow /\ (user # None => o \in perms)
          THEN {o} ELSE {}

\* row_number = 1 of Window(RowNumber, partition_by=[object_type, object_id],
\* order_by=[weight asc]): a row no other matching row of its object precedes;
\* among rows of equal weight the database picks the first
IsLastOfPartition(r, matched) ==
    \A c \in matched :
        (c.object_type = r.object_type /\ c.object_id = r.object_id) => r.weight >= c.weight

IsFirstOfPartition(r, matched) ==
    \A c \in matched :
        (c.object_type = r.object_type /\ c.object_id = r.object_id) => r.weight <= c.weight

Min(a, b) == IF a <= b THEN a ELSE b

\* The base queryset cut to MAX_RESULTS rows: which rows survive is the
\* database's choice
Limited(matched) ==
    IF Cardinality(matched) <= MAX_RESULTS
      THEN {matched}
      ELSE { kept \in SUBSET matched : Cardinality(kept) = MAX_RESULTS }

\* CachedValueSearchBackend.search(value, user, object_types, lookup)
Search(value, user, object_types, lookup) ==
    LET matched == { r \in cache : QueryFilter(r, value, object_types, lookup) }
        parts   == { [model |-> r.object_type, pk |-> r.object_id] : r \in matched }
    IN  \* the row numbered 1 in each partition
        \E first \in [parts -> matched] :
          /\ \A p \in parts :
                /\ first[p].object_type = p.model /\ first[p].object_id = p.pk
                /\ IsFirstOfPartition(first[p], matched)
          /\ \E kept \in Limited(matched) :
                LET numbered1 == { first[p] : p \in parts } \cap kept
                    rows == { r \in numbered1 : ObjectOf(r, user) # {} }
                IN  event' = [op |-> "search", value |-> value, user |-> user,
                              object_types |-> object_types, lookup |-> lookup,
                              rows |-> rows]
          /\ UNCHANGED <<objects, perms, cache>>
          /\ SearchFrame

SearchInit ==
    /\ objects = [o \in ObjKeys |-> NoRow]
    /\ perms = {}
    /\ cache = {}
    /\ event = NoEvent

(***************************************************************************)
(*                     The script runner: run_script                       *)
(***************************************************************************)

\* Latest time (in minutes) a job of the model is scheduled at
MaxTime == 3

JobIds      == {"j1", "j2"}
ScriptNames == {"s1", "s2"}
Intervals   == {1, 2}
\* What the database holds that a script may change
DbObjects   == {"x"}

\* JobStatusChoices
STATUS_PENDING   == "pending"
STATUS_SCHEDULED == "scheduled"
STATUS_RUNNING   == "running"
STATUS_COMPLETED == "completed"
STATUS_ERRORED   == "errored"
STATUS_FAILED    == "failed"

\* How script.run() ends: it returns, or raises AbortScript, AbortTransaction,
\* another Exception, or an exception that is not an Exception (SystemExit,
\* KeyboardInterrupt)
Outcomes == {"return", "AbortScript", "AbortTransaction", "Exception", "BaseException"}

\* The script's log entries: <<level, message>>
LogReverted      == <<"info", "Database changes have been reverted automatically.">>
LogAborted       == <<"failure", "Script aborted with error">>
LogException     == <<"failure", "An exception occurred">>
LogRevertedError == <<"info", "Database changes have been reverted due to error.">>

\* ScriptOutputSerializer(script).data
ScriptOutput(log, output) == [log |-> log, output |-> output]

NoData == [log |-> <<>>, output |-> None]

\* Job.start(): the job is running
JobStart(job) == [job EXCEPT !.status = STATUS_RUNNING]

\* Job.terminate(status=JobStatusChoices.STATUS_COMPLETED)
JobTerminate(job, status) == [job EXCEPT !.status = status]
JobTerminateDefault(job) == JobTerminate(job, STATUS_COMPLETED)

\* job.terminate(status=JobStatusChoices.STATUS_ERRORED)
TerminateErroredAsDefault(job) == JobTerminateDefault(job)

TerminateErrored(job) == JobTerminate(job, STATUS_ERRORED)

\* Job.enqueue(run_script, name=, user=, schedule_at=, interval=, data=, commit=):
\* a new job, scheduled when a time is given and pending otherwise
JobEnqueue(name, user, schedule_at, interval, data, commit) ==
    [name |-> name, user |-> user, scheduled |-> schedule_at, interval |-> interval,
     input |-> data, commit |-> commit,
     status |-> IF schedule_at # {} THEN STATUS_SCHEDULED ELSE STATUS_PENDING,
     data |-> NoData]

\* with transaction.atomic(): the block's changes are kept when it is left
\* normally and rolled back when it is left by an exception
AtomicKeepsAll(before, inside, raised) == inside

Atomic(before, inside, raised) == IF raised THEN before ELSE inside

\* _run_script(): the try / except around script.run(), given how run() ends
\* and the database it leaves inside the transaction.
\* Yields the database, the script log, the job and whether an exception leaves.
RunScriptInner(job, commit, outcome, before, inside) ==
    LET \* script.output is assigned only when run() returns
        output == IF outcome = "return" THEN "out" ELSE None
        \* `if not commit: raise AbortTransaction()` after run() has returned
        aborted == outcome = "AbortTransaction" \/ (outcome = "return" /\ ~commit)
        raised == outcome # "return" \/ aborted
        after == Atomic(before, inside, raised)
    IN  IF outcome = "return" \/ aborted
          THEN \* except AbortTransaction, then the end of the outer try block
               LET log == IF aborted THEN <<LogReverted>> ELSE <<>>
               IN  [db |-> after, log |-> log, propagated |-> FALSE,
                    job |-> JobTerminateDefault([job EXCEPT !.data = ScriptOutput(log, output)])]
        ELSE IF outcome \in {"AbortScript", "Exception"}
          THEN \* except Exception
               LET log == <<IF outcome = "AbortScript" THEN LogAborted ELSE LogException,
                            LogRevertedError>>
               IN  [db |-> after, log |-> log, propagated |-> FALSE,
                    job |-> TerminateErrored([job EXCEPT !.data = ScriptOutput(log, output)])]
        ELSE \* not an Exception: no handler, the exception leaves run_script
               [db |-> after, log |-> <<>>, propagated |-> TRUE, job |-> job]

\* The follow-up jobs run_script enqueues once _run_script has ended
FollowUpsSameTime(job) ==
    IF job.interval # {}
      THEN { JobEnqueue(job.name, job.user, job.scheduled,
                        job.interval, job.input, job.commit) }
      ELSE {}

FollowUps(job) ==
    IF job.interval # {}
      THEN LET new_scheduled_time ==
                   { t + i : t \in job.scheduled, i \in job.interval }
           IN  { JobEnqueue(job.name, job.user, new_scheduled_time,
                            job.interval, job.input, job.commit) }
      ELSE {}

NoRun == [job |-> None]

\* The other subsystems are not touched by the script operations
ScriptFrame == UNCHANGED <<vlanVars, searchVars, importVars, restVars, filterVars>>

FreeJobIds == { j \in JobIds : jobs[j] = NoRow }

\* A user runs a script from the script form: a job is enqueued. With an
\* interval and no time given, the form schedules the job for the current time.
SubmitScript(j, name, user, schedule_at, interval, commit) ==
    /\ j \in FreeJobIds
    /\ interval # {} => schedule_at # {}
    /\ jobs' = [jobs EXCEPT ![j] = JobEnqueue(name, user, schedule_at, interval, "d1", commit)]
    /\ run' = NoRun
    /\ UNCHANGED db
    /\ ScriptFrame

\* A finished job is deleted
DeleteJob(j) ==
    /\ jobs[j] # NoRow
    /\ jobs[j].status \in {STATUS_COMPLETED, STATUS_ERRORED, STATUS_FAILED}
    /\ jobs' = [jobs EXCEPT ![j] = NoRow]
    /\ run' = NoRun
    /\ UNCHANGED db
    /\ ScriptFrame

\* run_script(data, request, job, commit): the worker runs job j; the script's
\* run() leaves the database as `inside` within the transaction and ends as `outcome`
RunScript(j, outcome, inside) ==
    /\ jobs[j] # NoRow
    /\ jobs[j].status \in {STATUS_PENDING, STATUS_SCHEDULED}
    \* (the model's bounds: a recurring job needs room and time for its follow-up)
    /\ jobs[j].interval # {} =>
          /\ FreeJobIds # {}
          /\ \A t \in jobs[j].scheduled, i \in jobs[j].interval : t + i <= MaxTime
    /\ LET commit  == jobs[j].commit
           started == JobStart(jobs[j])
           \* `if commit: with change_logging(request): _run_script()`
           wrapped == commit
           res     == RunScriptInner(started, commit, outcome, db, inside)
           \* an exception that leaves _run_script skips the scheduling
           new     == IF res.propagated THEN {} ELSE FollowUps(res.job)
           n       == CHOOSE id \in FreeJobIds : TRUE
       IN  /\ db' = res.db
           /\ jobs' = IF new = {}
                        THEN [jobs EXCEPT ![j] = res.job]
                        ELSE [jobs EXCEPT ![j] = res.job,
                                          ![n] = CHOOSE f \in new : TRUE]
           /\ run' = [job |-> j, commit |-> commit, outcome |-> outcome,
                      wrapped |-> wrapped, log |-> res.log,
                      before |-> db, inside |-> inside,
                      propagated |-> res.propagated,
                      status_at_enqueue |-> res.job.status,
                      njobs_before |-> Cardinality(JobIds \ FreeJobIds),
                      enqueued |-> IF new = {} THEN {} ELSE {n}]
    /\ ScriptFrame

ScriptInit ==
    /\ jobs = [j \in JobIds |-> NoRow]
    /\ db = {}
    /\ run = NoRun

ScriptNext ==
    \/ \E j \in JobIds, name \in ScriptNames, user \in Users, commit \in BOOLEAN,
          schedule_at \in {{}, {0}}, interval \in {{}} \cup { {i} : i \in Intervals } :
          SubmitScript(j, name, user, schedule_at, interval, commit)
    \/ \E j \in JobIds : DeleteJob(j)
    \/ \E j \in JobIds, outcome \in Outcomes, inside \in SUBSET DbObjects :
          RunScript(j, outcome, inside)

(***************************************************************************)
(*                             CSV bulk import                             *)
(***************************************************************************)

\* Most data rows (rows after the header) of an imported document
MaxRows == 2

\* Cells are strings: sequences of characters. A document is the sequence of
\* rows csv.reader yields for the text, each row a sequence of cells.
SLUG == <<"s", "l", "u", "g">>
TAGS == <<"t", "a", "g", "s">>
COMMA == ","

\* The tags that exist (by slug), as create_tags makes them
ExistingTags == {<<"a">>, <<"b">>}

\* The documents of the model: the empty text; a header of two columns and up
\* to MaxRows data rows of two cells, a slug and a comma-separated list of tag
\* slugs; a header of one column, alone or over one such row (a row too long)
SlugCells == {<<>>, <<"x">>, <<"y">>}
TagCells  == {<<>>, <<"a", COMMA, "b">>, <<"a", COMMA, "t">>}
DataRows  == { <<slug, tags>> : slug \in SlugCells, tags \in TagCells }
Documents ==
    {<<>>} \cup
    { <<<<SLUG, TAGS>>>> \o rows : rows \in UNION { [1..n -> DataRows] : n \in 0..MaxRows } } \cup
    { <<<<SLUG>>>> \o rows : rows \in {<<>>} \cup { <<row>> : row \in DataRows } }

\* ImportFormatChoices, ImportMethodChoices
FORMAT_AUTO == "auto"
FORMAT_CSV  == "csv"
FORMAT_JSON == "json"
FORMAT_YAML == "yaml"
METHOD_DIRECT == "direct"
METHOD_UPLOAD == "upload"

\* The result of a form's clean: the cleaned records, or a ValidationError
Cleaned(records) == [ok |-> TRUE, records |-> records]
ValidationError  == [ok |-> FALSE, records |-> <<>>]

FirstChar(doc) == doc[1][1][1]

\* BulkImportForm._detect_format(data): JSON when the text starts with { or [,
\* CSV when the first line holds a comma (YAML never starts a document of the
\* model); with nothing to detect, a ValidationError
DetectFormat(doc) ==
    IF doc = <<>> \/ doc[1] = <<>> \/ doc[1][1] = <<>>
      THEN None                                   \* data[0]: IndexError
    ELSE IF FirstChar(doc) \in {"{", "["}
      THEN FORMAT_JSON
    ELSE IF Len(doc[1]) > 1 \/ \E i \in 1..Len(doc[1]) : \E k \in 1..Len(doc[1][i]) : doc[1][i][k] = COMMA
      THEN FORMAT_CSV
    ELSE None

\* parse_csv(reader): the first row gives the headers, every other row a record
\* mapping each header to the row's cell; a row of another length is an error
ParseCsv(doc) ==
    IF doc = <<>> THEN ValidationError
    ELSE LET headers == doc[1]
         IN  IF \E i \in 2..Len(doc) : Len(doc[i]) # Len(headers)
               THEN ValidationError
               ELSE Cleaned([i \in 1..(Len(doc) - 1) |->
                               [h \in Range(headers) |->
                                   doc[i + 1][CHOOSE k \in 1..Len(headers) : headers[k] = h]]])

\* BulkImportForm._clean_csv(data): the first row is treated as column headers
CleanCsvHeaderIsRecord(doc) ==
    IF doc = <<>> THEN ValidationError ELSE ParseCsv(<<doc[1]>> \o doc)

CleanCsv(doc) == ParseCsv(doc)

\* BulkImportForm.clean(): pick the source by import method (direct text or
\* uploaded file), detect the format, clean the data by its format
BulkImportFormCleanReadsData(req) ==
    LET format == IF req.format = FORMAT_AUTO THEN DetectFormat(req.data) ELSE req.format
    IN  IF format = FORMAT_CSV THEN CleanCsv(req.data) ELSE ValidationError

BulkImportFormClean(req) ==
    IF req.data # <<>> /\ req.import_method # METHOD_DIRECT
      THEN ValidationError        \* "Form data must be empty when uploading/selecting a file."
      ELSE LET data   == IF req.import_method = METHOD_UPLOAD THEN req.upload_file ELSE req.data
               format == IF req.format = FORMAT_AUTO THEN DetectFormat(data) ELSE req.format
           IN  IF format = FORMAT_CSV
                 THEN CleanCsv(data)
                 ELSE ValidationError   \* no JSON or YAML document in the model; None: undetected

\* str.split(',')
RECURSIVE SplitFrom(_, _, _)
SplitFrom(str, i, cur) ==
    IF i > Len(str) THEN <<cur>>
    ELSE IF str[i] = COMMA THEN <<cur>> \o SplitFrom(str, i + 1, <<>>)
    ELSE SplitFrom(str, i + 1, Append(cur, str[i]))

\* CSVModelMultipleChoiceField.clean(value): the named tags; every name must be
\* the slug of an existing tag
TagNames(value) == IF value # <<>> THEN Range(SplitFrom(value, 1, <<>>)) ELSE {}

\* The model form of one record: slug required and unique, tags existing
RecordValid(record, table) ==
    /\ SLUG \in DOMAIN record
    /\ record[SLUG] # <<>>
    /\ \A r \in table : r.slug # record[SLUG]
    /\ TAGS \in DOMAIN record => TagNames(record[TAGS]) \subseteq ExistingTags

\* form.save(): the new object with its tags
NewObject(record) ==
    [slug |-> record[SLUG],
     tags |-> IF TAGS \in DOMAIN record THEN TagNames(record[TAGS]) ELSE {}]

\* The import view's loop over the records, inside its transaction: each valid
\* record is saved; the first invalid one ends the loop with an error
RECURSIVE CreateObjects(_, _, _)
CreateObjects(records, i, table) ==
    IF i > Len(records) THEN [table |-> table, failed |-> 0]
    ELSE IF RecordValid(records[i], table)
      THEN CreateObjects(records, i + 1, table \cup {NewObject(records[i])})
    ELSE [table |-> table, failed |-> i]

NoRequest  == [import_method |-> None]
NoResponse == [status |-> None]

\* The other subsystems are not touched by the import operations
ImportFrame == UNCHANGED <<vlanVars, searchVars, scriptVars, restVars, filterVars>>

\* A user posts the import form
PostImport(req) ==
    /\ pending = NoRequest
    /\ pending' = req
    /\ response' = NoResponse
    /\ UNCHANGED regions
    /\ ImportFrame

\* The import view handles the request: the form is cleaned and the records are
\* created in one transaction, which is rolled back when a record is invalid
ImportKeepsValidRows ==
    /\ pending # NoRequest
    /\ LET form == BulkImportFormClean(pending)
           done == CreateObjects(form.records, 1, regions)
       IN  /\ regions' = IF form.ok THEN done.table ELSE regions
           /\ response' = IF form.ok /\ done.failed = 0
                            THEN [status |-> "ok", created |-> Len(form.records), failed |-> 0]
                            ELSE [status |-> "error", created |-> 0, failed |-> done.failed]
    /\ pending' = NoRequest
    /\ ImportFrame

Import ==
    /\ pending # NoRequest
    /\ LET form == BulkImportFormClean(pending)
           done == CreateObjects(form.records, 1, regions)
       IN  IF form.ok /\ done.failed = 0
             THEN /\ regions' = done.table
                  /\ response' = [status |-> "ok", created |-> Len(form.records), failed |-> 0]
             ELSE /\ regions' = regions
                  /\ response' = [status |-> "error", created |-> 0,
                                  failed |-> IF form.ok THEN done.failed ELSE 0]
    /\ pending' = NoRequest
    /\ ImportFrame

\* An imported object is deleted
DeleteRegion(slug) ==
    /\ pending = NoRequest
    /\ \E r \in regions : r.slug = slug
    /\ regions' = { r \in regions : r.slug # slug }
    /\ response' = NoResponse
    /\ UNCHANGED pending
    /\ ImportFrame

Requests ==
    { [import_method |-> METHOD_DIRECT, data |-> doc, upload_file |-> <<>>, format |-> f] :
        doc \in Documents, f \in {FORMAT_CSV, FORMAT_AUTO} }
    \cup
    { [import_method |-> METHOD_UPLOAD, data |-> d, upload_file |-> doc, format |-> f] :
        doc \in Documents \ {<<>>}, f \in {FORMAT_CSV, FORMAT_AUTO}, d \in {<<>>} }
    \cup
    { [import_method |-> METHOD_UPLOAD, data |-> <<<<SLUG>>>>, upload_file |-> doc, format |-> FORMAT_CSV] :
        doc \in Documents \ {<<>>} }

ImportInit ==
    /\ regions = {}
    /\ pending = NoRequest
    /\ response = NoResponse

ImportNext ==
    \/ \E req \in Requests : PostImport(req)
    \/ Import
    \/ \E slug \in SlugCells : DeleteRegion(slug)

(***************************************************************************)
(*                          REST API model viewset                         *)
(***************************************************************************)

\* Most ObjectChange rows the changelog holds
MaxChanges == 2

SitePks      == {1, 2}
SiteNames    == {"a", "b"}
SiteStatuses == {"active", "planned"}
SiteFields   == {"name", "status"}
SiteData     == [name : SiteNames, status : SiteStatuses]

\* A superuser, and a user whose permissions carry the constraint status=active
ApiUsers == {"admin", "u1"}

\* HTTP_ACTIONS
HTTP_ACTIONS(method) ==
    CASE method = "GET"    -> "view"
      [] method = "POST"   -> "add"
      [] method \in {"PUT", "PATCH"} -> "change"
      [] method = "DELETE" -> "delete"

\* ObjectChangeActionChoices
ACTION_CREATE == "create"
ACTION_UPDATE == "update"
ACTION_DELETE == "delete"

\* The statuses the user's object permission for the action admits
PermittedStatuses(user, action) ==
    IF user = "admin" THEN SiteStatuses ELSE {"active"}

\* BaseViewSet.initial(): queryset.restrict(request.user, action), as the pks of
\* the rows of the table that the restricted queryset holds
Restrict(table, user, method) ==
    { pk \in SitePks : /\ table[pk] # NoRow
                       /\ table[pk].status \in PermittedStatuses(user, HTTP_ACTIONS(method)) }

\* ChangeLoggingMixin.serialize_object(): the JSON object of the fields
SerializeObject(fields) == [f \in SiteFields |-> fields[f]]

\* ChangeLoggingMixin.snapshot()
Snapshot(instance) ==
    [instance EXCEPT !._prechange_snapshot = {SerializeObject(instance.fields)}]

\* ChangeLoggingMixin.to_objectchange(action)
\* (prechange_data and postchange_data are optional: {data}, or {} when unset)
ToObjectChange(instance, action) ==
    [action            |-> action,
     changed_object_id |-> instance.pk,
     prechange_data    |-> instance._prechange_snapshot,
     postchange_data   |-> IF action \in {ACTION_CREATE, ACTION_UPDATE}
                             THEN {SerializeObject(instance.fields)}
                             ELSE {}]

\* GenericAPIView.get_object(): the instance loaded from its row, without the
\* _prechange_snapshot attribute
GetObject(table, pk) ==
    [pk |-> pk, fields |-> table[pk], _prechange_snapshot |-> {}]

\* NetBoxModelViewSet.get_object_with_snapshot()
GetObjectNoSnapshot(table, pk) ==
    [pk |-> pk, fields |-> table[pk], _prechange_snapshot |-> {}]

GetObjectWithSnapshot(table, pk) == Snapshot(GetObject(table, pk))

\* with transaction.atomic(): the block's changes are kept unless it is left by
\* an exception
TransactionAtomicKeepsSave(before, inside, raised) == inside

TransactionAtomic(before, inside, raised) == IF raised THEN before ELSE inside

\* instance.save() under change logging: the row is written and the post_save
\* handler adds the instance's ObjectChange
SaveInstance(data, instance, action) ==
    [table |-> [data.table EXCEPT ![instance.pk] = instance.fields],
     log   |-> Append(data.log, ToObjectChange(instance, action))]

\* serializer.save() of a create: one new instance per item of the payload
RECURSIVE SerializerCreate(_, _, _, _)
SerializerCreate(data, pks, payload, i) ==
    IF i > Len(payload) THEN data
    ELSE SerializerCreate(
            SaveInstance(data, [pk |-> pks[i], fields |-> payload[i], _prechange_snapshot |-> {}],
                         ACTION_CREATE),
            pks, payload, i + 1)

\* serializer.save() of an update: the payload's fields are set on the instance
SerializerUpdate(data, instance, payload) ==
    SaveInstance(data,
                 [instance EXCEPT !.fields = [f \in SiteFields |->
                     IF f \in DOMAIN payload THEN payload[f] ELSE instance.fields[f]]],
                 ACTION_UPDATE)

\* ObjectValidationMixin._validate_objects(instance): every saved instance is
\* matched by the view's queryset, or ObjectDoesNotExist is raised
ValidateObjects(table, user, method, pks) ==
    \A pk \in pks : pk \in Restrict(table, user, method)

\* NetBoxModelViewSet.perform_create(serializer)
PerformCreate(data, user, pks, payload) ==
    LET inside == SerializerCreate(data, pks, payload, 1)
        raised == ~ValidateObjects(inside.table, user, "POST", Range(pks))
    IN  [data |-> TransactionAtomic(data, inside, raised), PermissionDenied |-> raised]

\* NetBoxModelViewSet.perform_update(serializer)
PerformUpdate(data, user, method, instance, payload) ==
    LET inside == SerializerUpdate(data, instance, payload)
        raised == ~ValidateObjects(inside.table, user, method, {instance.pk})
    IN  [data |-> TransactionAtomic(data, inside, raised), PermissionDenied |-> raised]

\* NetBoxModelViewSet.perform_destroy(instance): the row is deleted and the
\* deletion handler adds the instance's ObjectChange
PerformDestroy(data, instance) ==
    [table |-> [data.table EXCEPT ![instance.pk] = NoRow],
     log   |-> Append(data.log, ToObjectChange(instance, ACTION_DELETE))]

NoReply == [method |-> None]

\* The other subsystems are not touched by the REST API
RestFrame == UNCHANGED <<vlanVars, searchVars, scriptVars, importVars, filterVars>>

Database == [table |-> sites, log |-> changelog]

\* POST: create one object, or a list of objects
ApiCreate(user, pks, payload) ==
    /\ Len(pks) = Len(payload)
    /\ \A i \in 1..Len(pks) : sites[pks[i]] = NoRow
    /\ \A i \in 1..Len(pks) : \A j \in 1..Len(pks) : pks[i] = pks[j] => i = j
    /\ Len(changelog) + Len(payload) <= MaxChanges
    /\ LET done == PerformCreate(Database, user, pks, payload)
       IN  /\ sites' = done.data.table
           /\ changelog' = done.data.log
           /\ reply' = [method |-> "POST", user |-> user, pks |-> Range(pks),
                        payload |-> payload,
                        status |-> IF done.PermissionDenied THEN 403 ELSE 201]
    /\ RestFrame

\* PUT or PATCH: update(), with get_object hotwired to get_object_with_snapshot
ApiUpdate(user, method, pk, payload) ==
    /\ Len(changelog) < MaxChanges
    /\ IF pk \notin Restrict(sites, user, method)
         THEN /\ reply' = [method |-> method, user |-> user, pks |-> {pk},
                        payload |-> payload, status |-> 404]
              /\ UNCHANGED <<sites, changelog>>
         ELSE LET instance == GetObjectWithSnapshot(sites, pk)
                  done == PerformUpdate(Database, user, method, instance, payload)
              IN  /\ sites' = done.data.table
                  /\ changelog' = done.data.log
                  /\ reply' = [method |-> method, user |-> user, pks |-> {pk},
                               payload |-> payload,
                               status |-> IF done.PermissionDenied THEN 403 ELSE 200]
    /\ RestFrame

\* DELETE: destroy(), with get_object hotwired to get_object_with_snapshot
ApiDestroy(user, pk) ==
    /\ Len(changelog) < MaxChanges
    /\ IF pk \notin Restrict(sites, user, "DELETE")
         THEN /\ reply' = [method |-> "DELETE", user |-> user, pks |-> {pk},
                        payload |-> <<>>, status |-> 404]
              /\ UNCHANGED <<sites, changelog>>
         ELSE LET instance == GetObjectWithSnapshot(sites, pk)
                  done == PerformDestroy(Database, instance)
              IN  /\ sites' = done.table
                  /\ changelog' = done.log
                  /\ reply' = [method |-> "DELETE", user |-> user, pks |-> {pk},
                               payload |-> <<>>, status |-> 204]
    /\ RestFrame

\* Payloads: of a create, one object or a list of two; of an update, all the
\* fields (PUT) or some of them (PATCH)
CreatePayloads == { <<d>> : d \in SiteData } \cup { <<d, e>> : d \in SiteData, e \in SiteData }
CreatePks      == { <<pk>> : pk \in SitePks } \cup { <<pk, qk>> : pk \in SitePks, qk \in SitePks }
PatchPayloads  == { [name |-> n] : n \in SiteNames } \cup { [status |-> t] : t \in SiteStatuses }

RestInit ==
    /\ sites = [pk \in SitePks |-> NoRow]
    /\ changelog = <<>>
    /\ reply = NoReply

RestNext ==
    \/ \E user \in ApiUsers, pks \in CreatePks, payload \in CreatePayloads :
          ApiCreate(user, pks, payload)
    \/ \E user \in ApiUsers, pk \in SitePks :
          \/ \E payload \in SiteData : ApiUpdate(user, "PUT", pk, payload)
          \/ \E payload \in PatchPayloads : ApiUpdate(user, "PATCH", pk, payload)
    \/ \E user \in ApiUsers, pk \in SitePks : ApiDestroy(user, pk)

(***************************************************************************)
(*                        User and token filtersets                        *)
(***************************************************************************)

UserPks    == {1, 2}
UserGroups == {"Group 1", "Group 2"}
TokenPks   == {1, 2}

\* The username of each user, and the usernames a filter may list
Username(pk) == IF pk = 1 THEN "User1" ELSE "User2"
UsernameValues == {"User1", "User2", "User9"}

\* Token.expires: past_date, future_date or NULL ({}); the times a filter gives
ExpiresValues == {{}, {2000}, {3000}}
ExpiresParams == {2000, 2021, 3000}

\* The lists of one or two values (which may repeat) given to a filter
ValueLists(S) == { <<v>> : v \in S } \cup { <<v, w>> : v \in S, w \in S }

\* QuerySet.distinct(): each row once, in the order of first appearance
KeepDuplicates(rows) == rows

RECURSIVE Distinct(_)

Distinct(rows) ==
    IF rows = <<>> THEN <<>>
    ELSE LET rest == Distinct(SubSeq(rows, 1, Len(rows) - 1))
             last == rows[Len(rows)]
         IN  IF last \in Range(rest) THEN rest ELSE Append(rest, last)

\* The rows of a table scan in pk order, row pk given n[pk] times
RECURSIVE Scan(_, _)
Scan(pks, n) ==
    IF pks = {} THEN <<>>
    ELSE LET pk == CHOOSE x \in pks : \A y \in pks : x <= y
         IN  [i \in 1..n[pk] |-> pk] \o Scan(pks \ {pk}, n)

\* UserFilterSet username: the users whose username is one of the values
FilterUsername(values) ==
    LET n == [pk \in UserPks |-> IF users[pk].username \in Range(values) THEN 1 ELSE 0]
    IN  Distinct(Scan(UserPks, n))

\* UserFilterSet group: the join of users with their groups yields a user once
\* per listed group it belongs to; the filter is distinct
FilterGroup(values) ==
    LET n == [pk \in UserPks |-> Cardinality(users[pk].groups \cap Range(values))]
    IN  Distinct(Scan(UserPks, n))

\* TokenFilterSet expires, expires__gte, expires__lte: a NULL expires matches none
FilterExpires(lookup, value) ==
    LET match(e) == CASE lookup = "exact" -> e = value
                      [] lookup = "gte"   -> e >= value
                      [] lookup = "lte"   -> e <= value
        n == [pk \in TokenPks |-> IF tokens[pk] # NoRow /\ \E e \in tokens[pk].expires : match(e) THEN 1 ELSE 0]
    IN  Scan(TokenPks, n)

\* TokenFilterSet write_enabled
FilterWriteEnabled(value) ==
    LET n == [pk \in TokenPks |-> IF tokens[pk] # NoRow /\ tokens[pk].write_enabled = value THEN 1 ELSE 0]
    IN  Scan(TokenPks, n)

NoListing == [param |-> None]

\* The other subsystems are not touched by the filtersets
FilterFrame == UNCHANGED <<vlanVars, searchVars, scriptVars, importVars, restVars>>

\* user.groups.set(groups)
SetGroups(pk, gs) ==
    /\ users' = [users EXCEPT ![pk].groups = gs]
    /\ listing' = NoListing
    /\ UNCHANGED tokens
    /\ FilterFrame

CreateToken(pk, expires, write_enabled) ==
    /\ tokens[pk] = NoRow
    /\ tokens' = [tokens EXCEPT ![pk] = [expires |-> expires, write_enabled |-> write_enabled]]
    /\ listing' = NoListing
    /\ UNCHANGED users
    /\ FilterFrame

DeleteToken(pk) ==
    /\ tokens[pk] # NoRow
    /\ tokens' = [tokens EXCEPT ![pk] = NoRow]
    /\ listing' = NoListing
    /\ UNCHANGED users
    /\ FilterFrame

\* UserFilterSet({'username': values}, queryset).qs
ListUsersByUsername(values) ==
    /\ listing' = [param |-> "username", values |-> values, qs |-> FilterUsername(values)]
    /\ UNCHANGED <<users, tokens>>
    /\ FilterFrame

\* UserFilterSet({'group': values}, queryset).qs
ListUsersByGroup(values) ==
    /\ listing' = [param |-> "group", values |-> values, qs |-> FilterGroup(values)]
    /\ UNCHANGED <<users, tokens>>
    /\ FilterFrame

\* TokenFilterSet({'expires' / 'expires__gte' / 'expires__lte': value}, queryset).qs
ListTokensByExpires(lookup, value) ==
    /\ listing' = [param |-> "expires", lookup |-> lookup, values |-> <<value>>,
                   qs |-> FilterExpires(lookup, value)]
    /\ UNCHANGED <<users, tokens>>
    /\ FilterFrame

\* TokenFilterSet({'write_enabled': True}, ...).qs and ({'write_enabled': False}, ...).qs
ListTokensByWriteEnabled ==
    /\ listing' = [param |-> "write_enabled", values |-> <<TRUE, FALSE>>,
                   qs |-> FilterWriteEnabled(TRUE), qs_false |-> FilterWriteEnabled(FALSE)]
    /\ UNCHANGED <<users, tokens>>
    /\ FilterFrame

FilterInit ==
    /\ users = [pk \in UserPks |-> [username |-> Username(pk), groups |-> {}]]
    /\ tokens = [pk \in TokenPks |-> NoRow]
    /\ listing = NoListing

FilterNext ==
    \/ \E pk \in UserPks, gs \in SUBSET UserGroups : SetGroups(pk, gs)
    \/ \E pk \in TokenPks, expires \in ExpiresValues, write_enabled \in BOOLEAN :
          CreateToken(pk, expires, write_enabled)
    \/ \E pk \in TokenPks : DeleteToken(pk)
    \/ \E values \in ValueLists(UsernameValues) : ListUsersByUsername(values)
    \/ \E values \in ValueLists(UserGroups) : ListUsersByGroup(values)
    \/ \E lookup \in {"exact", "gte", "lte"}, value \in ExpiresParams :
          ListTokensByExpires(lookup, value)
    \/ ListTokensByWriteEnabled

(***************************************************************************)
(*                             Specifications                              *)
(***************************************************************************)

SpecVlanInit == VlanInit /\ SearchInit /\ ScriptInit /\ ImportInit /\ RestInit /\ FilterInit

SpecVlan == SpecVlanInit /\ [][VlanNext]_vars

SearchNext ==
    \/ \E o \in ObjKeys : \E values \in FieldValues(o) : SaveObject(o, values)
    \/ \E o \in ObjKeys : DeleteObject(o)
    \/ \E o \in ObjKeys : GrantView(o)
    \/ \E o \in ObjKeys : RevokeView(o)
    \/ \E value \in {<<"a">>, <<"b">>}, user \in Users \cup {None},
          object_types \in {{}, {"lab"}}, lookup \in LookupTypes :
          Search(value, user, object_types, lookup)

SpecSearchInit == VlanInit /\ SearchInit /\ ScriptInit /\ ImportInit /\ RestInit /\ FilterInit

SpecSearch == SpecSearchInit /\ [][SearchNext]_vars

SpecScriptInit == VlanInit /\ SearchInit /\ ScriptInit /\ ImportInit /\ RestInit /\ FilterInit

SpecScript == SpecScriptInit /\ [][ScriptNext]_vars

SpecImportInit == VlanInit /\ SearchInit /\ ScriptInit /\ ImportInit /\ RestInit /\ FilterInit

SpecImport == SpecImportInit /\ [][ImportNext]_vars

SpecRestInit == VlanInit /\ SearchInit /\ ScriptInit /\ ImportInit /\ RestInit /\ FilterInit

SpecRest == SpecRestInit /\ [][RestNext]_vars

SpecFilterInit == VlanInit /\ SearchInit /\ ScriptInit /\ ImportInit /\ RestInit /\ FilterInit

SpecFilter == SpecFilterInit /\ [][FilterNext]_vars

(***************************************************************************)
(*                        Claims about VLAN groups                         *)
(***************************************************************************)

\* The VIDs of a group's range that no VLAN of the group uses
FreeVids(g) ==
    { vid \in VidInputs :
        /\ groups[g].min_vid <= vid /\ vid <= groups[g].max_vid
        /\ ~ \E v \in VlanIds :
               vlans[v] # NoRow /\ vlans[v].group = g /\ vlans[v].vid = vid }

\* C9: get_available_vids() returns, strictly ascending (so without duplicates),
\* exactly the VIDs of [min_vid, max_vid] that no VLAN of the group uses, and
\* get_next_available_vid() returns the smallest of them, or None when there is none.
C9_AvailableVids ==
    query.group # None =>
        LET g == query.group
            s == query.vids
        IN  /\ \A i \in 1..Len(s), j \in 1..Len(s) : i < j => s[i] < s[j]
            /\ Range(s) = FreeVids(g)
            /\ IF FreeVids(g) = {}
                  THEN query.next = {}
                  ELSE /\ query.next \subseteq FreeVids(g)
                       /\ Cardinality(query.next) = 1
                       /\ \A n \in query.next : \A vid \in FreeVids(g) : n <= vid

\* C9 witness: a query on a group whose lowest VID is taken and whose highest is free
C9_Witness ==
    /\ query.group # None
    /\ groups[query.group].min_vid < groups[query.group].max_vid
    /\ \E v \in VlansOfGroup(query.group) : vlans[v].vid = groups[query.group].min_vid
    /\ query.vids # <<>>
    /\ query.vids[Len(query.vids)] = groups[query.group].max_vid

\* C9 witness of the None case is part of the state space too: every VID taken
C9_AllTaken ==
    /\ query.group # None
    /\ query.vids = <<>>
    /\ query.next = {}

\* C10: every VLAN assigned to a group has a VID within the group's
\* [min_vid, max_vid], in every state reached by validated creations and edits
\* of VLANs and VLAN groups.
C10_VidWithinGroupRange ==
    \A v \in VlanIds :
        (vlans[v] # NoRow /\ vlans[v].group # None) =>
            /\ groups[vlans[v].group].min_vid <= vlans[v].vid
            /\ vlans[v].vid <= groups[vlans[v].group].max_vid

(***************************************************************************)
(*                     Claims about the search backend                     *)
(***************************************************************************)

SameObject(r, c) == r.object_type = c.object_type /\ r.object_id = c.object_id

\* C6: search() returns at most one result per object (object_type, object_id),
\* a lowest-weight row among the object's cached values that match the query,
\* and no result for an object the given user may not view.
C6_SearchResults ==
    event.op = "search" =>
        LET matched == { r \in cache :
                           QueryFilter(r, event.value, event.object_types, event.lookup) }
        IN  /\ \A r1 \in event.rows : \A r2 \in event.rows : SameObject(r1, r2) => r1 = r2
            /\ \A r \in event.rows :
                  /\ r \in matched
                  /\ \A c \in matched : SameObject(r, c) => r.weight <= c.weight
                  /\ event.user # None =>
                        [model |-> r.object_type, pk |-> r.object_id] \in perms

\* C6 witness: a search by a user that returns a row of an object with a
\* heavier matching row, while a matching row of an object the user may not
\* view is left out
C6_Witness ==
    /\ event.op = "search"
    /\ event.user # None
    /\ \E r \in event.rows : \E c \in cache :
          /\ QueryFilter(c, event.value, event.object_types, event.lookup)
          /\ SameObject(r, c)
          /\ c.weight > r.weight
    /\ \E c \in cache :
          /\ QueryFilter(c, event.value, event.object_types, event.lookup)
          /\ [model |-> c.object_type, pk |-> c.object_id] \notin perms

\* C7: after a creation and any number of updates, an indexed object's cached
\* values are exactly those its indexer generates from its current field
\* values: every row holds the current value of its field, every indexed field
\* with a value has its row, and no field has two rows.
C7_CacheIsCurrent ==
    \A o \in ObjKeys :
        (o.model \in IndexedModels /\ objects[o] # NoRow) =>
            LET rows   == RowsOf(cache, o)
                fields == IndexFields(o.model)
            IN  /\ \A r \in rows :
                      /\ \E i \in 1..Len(fields) :
                            fields[i][1] = r.field /\ fields[i][2] = r.weight
                      /\ r.value = objects[o][r.field]
                      /\ r.value # EmptyStr
                /\ \A i \in 1..Len(fields) :
                      objects[o][fields[i][1]] # EmptyStr =>
                          \E r \in rows : r.field = fields[i][1]
                /\ \A r1 \in rows : \A r2 \in rows : r1.field = r2.field => r1 = r2

\* C7 witness: an indexed object has just been re-cached after an update that
\* changed its field values
C7_Witness ==
    /\ event.op = "post_save"
    /\ ~event.created
    /\ event.changed
    /\ event.obj.model \in IndexedModels

\* C8: deleting an object leaves no cached row with its content type and id, and
\* removing an object whose model has no search indexer leaves the cache as it was.
C8_DeleteStep ==
    \A o \in ObjKeys :
        (objects[o] # NoRow /\ objects'[o] = NoRow) =>
            /\ { r \in cache' : r.object_type = o.model /\ r.object_id = o.pk } = {}
            /\ o.model \notin IndexedModels => cache' = cache

C8_RemoveOnDelete == [][C8_DeleteStep]_vars

\* C8 witness: an object that had cached rows has just been deleted
C8_Witness ==
    /\ event.op = "post_delete"
    /\ event.removed > 0
    /\ objects[event.obj] = NoRow

(***************************************************************************)
(*                         Claims about run_script                         *)
(***************************************************************************)

InLog(entry, log) == \E i \in 1..Len(log) : log[i] = entry
HasFailure(log)   == \E i \in 1..Len(log) : log[i][1] = "failure"

\* C3: with commit=False and script.run() returning, the script's database
\* changes are rolled back, the log gains 'Database changes have been reverted
\* automatically.', the job ends with the default status (completed, not
\* errored), and the run is not wrapped in change_logging.
C3_DryRunReverts ==
    (run.job # None /\ ~run.commit /\ run.outcome = "return") =>
        /\ db = run.before
        /\ InLog(LogReverted, run.log)
        /\ jobs[run.job].status = STATUS_COMPLETED
        /\ jobs[run.job].status # STATUS_ERRORED
        /\ ~run.wrapped

\* C3 witness: a dry run whose script changed the database and returned
C3_Witness ==
    /\ run.job # None
    /\ ~run.commit
    /\ run.outcome = "return"
    /\ run.inside # run.before

\* What C4 says happens after script.run() has raised
ErrorHandled ==
    /\ db = run.before
    /\ HasFailure(run.log)
    /\ jobs[run.job].data = ScriptOutput(run.log, None)
    /\ jobs[run.job].status = STATUS_ERRORED
    /\ ~run.propagated

\* C4 as stated: whatever exception script.run() raises, the changes are rolled
\* back, a failure entry is logged, job.data is the serialized script output,
\* the job ends 'errored' and the exception does not leave run_script.
C4_AnyExceptionHandled ==
    (run.job # None /\ run.outcome # "return") => ErrorHandled

\* C4 amended: the same, when script.run() raises AbortScript or any other
\* Exception except AbortTransaction (and not a SystemExit, KeyboardInterrupt
\* or other exception outside Exception).
C4_ExceptionHandled ==
    (run.job # None /\ run.outcome \in {"AbortScript", "Exception"}) => ErrorHandled

\* C4 witness: run() changed the database and raised an Exception
C4_Witness ==
    /\ run.job # None
    /\ run.outcome = "Exception"
    /\ run.inside # run.before

\* C5: a run that has finished (completed or errored) of a job with an interval
\* has enqueued exactly one follow-up job, after the job was terminated,
\* scheduled at job.scheduled + interval and with the same interval, name,
\* user, data and commit flag; a job without an interval enqueues none.
C5_FollowUp ==
    (run.job # None /\ ~run.propagated) =>
        LET job == jobs[run.job]
        IN  IF job.interval # {}
              THEN /\ Cardinality(run.enqueued) = 1
                   /\ Cardinality(JobIds \ FreeJobIds) = run.njobs_before + 1
                   /\ run.status_at_enqueue \in {STATUS_COMPLETED, STATUS_ERRORED}
                   /\ \A n \in run.enqueued :
                         /\ n # run.job
                         /\ jobs[n] # NoRow
                         /\ \A t \in job.scheduled, i \in job.interval :
                               jobs[n].scheduled = {t + i}
                         /\ jobs[n].scheduled # {}
                         /\ jobs[n].interval = job.interval
                         /\ jobs[n].name = job.name
                         /\ jobs[n].user = job.user
                         /\ jobs[n].input = job.input
                         /\ jobs[n].commit = job.commit
              ELSE /\ run.enqueued = {}
                   /\ Cardinality(JobIds \ FreeJobIds) = run.njobs_before

\* C5 witness: a run of a recurring job that errored and has its follow-up
C5_Witness ==
    /\ run.job # None
    /\ jobs[run.job].status = STATUS_ERRORED
    /\ jobs[run.job].interval # {}
    /\ jobs[run.job].scheduled # {0}
    /\ run.enqueued # {}

\* C11: in every reachable state no two VLANs assigned to the same group share
\* a vid, and no two share a name.
C11_UniqueWithinGroup ==
    \A v \in VlanIds : \A w \in VlanIds \ {v} :
        (/\ vlans[v] # NoRow
         /\ vlans[w] # NoRow
         /\ vlans[v].group # None
         /\ vlans[v].group = vlans[w].group)
        => /\ vlans[v].vid # vlans[w].vid
           /\ vlans[v].name # vlans[w].name

\* Two VLANs share a group, and so differ in vid and in name
C11_Witness ==
    \E v \in VlanIds : \E w \in VlanIds \ {v} :
        /\ vlans[v] # NoRow
        /\ vlans[w] # NoRow
        /\ vlans[v].group \in GroupIds
        /\ vlans[v].group = vlans[w].group

\* VLANs of different groups share both their vid and their name
C11_SharedAcrossGroups ==
    \E v \in VlanIds : \E w \in VlanIds \ {v} :
        /\ vlans[v] # NoRow
        /\ vlans[w] # NoRow
        /\ vlans[v].group \in GroupIds
        /\ vlans[w].group \in GroupIds
        /\ vlans[v].group # vlans[w].group
        /\ vlans[v].vid = vlans[w].vid
        /\ vlans[v].name = vlans[w].name

(***************************************************************************)
(*                         Claims: CSV bulk import                         *)
(***************************************************************************)

\* The document a request carries: the uploaded file, or the form's text
RequestDocument(req) ==
    IF req.import_method = METHOD_UPLOAD THEN req.upload_file ELSE req.data

\* The request passes the import form: no text beside an upload, a CSV
\* document (declared, or recognisable by a comma in its first line) whose rows
\* all have as many cells as the header
WellFormed(req) ==
    LET doc == RequestDocument(req)
    IN  /\ req.import_method = METHOD_DIRECT \/ req.data = <<>>
        /\ doc # <<>>
        /\ req.format = FORMAT_CSV \/ Len(doc[1]) > 1
        /\ \A i \in 1..Len(doc) : Len(doc[i]) = Len(doc[1])

\* The cell of data row i (counted after the header) under the given header
CellOf(doc, i, header) ==
    doc[i + 1][CHOOSE k \in 1..Len(doc[1]) : doc[1][k] = header]

\* The string is one of the comma-separated names of the cell
Named(cell, str) ==
    \E i \in 1..Len(cell) : \E j \in i..Len(cell) :
        /\ SubSeq(cell, i, j) = str
        /\ i = 1 \/ cell[i - 1] = COMMA
        /\ j = Len(cell) \/ cell[j + 1] = COMMA
        /\ \A k \in i..j : cell[k] # COMMA

\* The cell names something that is not an existing tag
NamesMissingTag(cell) ==
    \/ \E i \in 1..Len(cell) : cell[i] \notin { t[1] : t \in ExistingTags } \cup {COMMA}
    \/ cell # <<>> /\ (cell[1] = COMMA \/ cell[Len(cell)] = COMMA)
    \/ \E i \in 1..(Len(cell) - 1) : cell[i] = COMMA /\ cell[i + 1] = COMMA

\* Data row i of the document fails validation against the stored objects
RowFails(doc, i, table) ==
    \/ SLUG \notin Range(doc[1])
    \/ CellOf(doc, i, SLUG) = <<>>
    \/ \E r \in table : r.slug = CellOf(doc, i, SLUG)
    \/ \E j \in 1..(i - 1) : CellOf(doc, j, SLUG) = CellOf(doc, i, SLUG)
    \/ TAGS \in Range(doc[1]) /\ NamesMissingTag(CellOf(doc, i, TAGS))

ImportStep == pending # NoRequest /\ pending' = NoRequest

\* C1: when at least one record of a well-formed bulk import request fails
\* validation, the import creates no objects at all: the stored objects after the import are
\* those before it, and the response is an error.
C1_ImportStep ==
    LET doc == RequestDocument(pending)
    IN  (/\ ImportStep
         /\ WellFormed(pending)
         /\ \E i \in 1..(Len(doc) - 1) : RowFails(doc, i, regions))
        => /\ regions' = regions
           /\ response'.status = "error"

C1_InvalidRecordCreatesNothing == [][C1_ImportStep]_vars

\* The second record of a request failed after the first had been saved
C1_Witness ==
    /\ response.status = "error"
    /\ response.failed = 2

\* C2: when every record of a CSV bulk import is valid, the import creates
\* exactly one object per data row (header excluded), and each object carries
\* exactly the existing tags named in its row's tags cell; an empty cell gives
\* no tags.
C2_ImportStep ==
    LET doc == RequestDocument(pending)
        n   == Len(doc) - 1
    IN  (/\ ImportStep
         /\ WellFormed(pending)
         /\ \A i \in 1..n : ~RowFails(doc, i, regions))
        => /\ regions \subseteq regions'
           /\ Cardinality(regions' \ regions) = n
           /\ \A i \in 1..n :
                \E r \in regions' \ regions :
                    /\ r.slug = CellOf(doc, i, SLUG)
                    /\ r.tags = IF TAGS \in Range(doc[1])
                                  THEN { t \in ExistingTags : Named(CellOf(doc, i, TAGS), t) }
                                  ELSE {}
                    /\ (TAGS \in Range(doc[1]) /\ CellOf(doc, i, TAGS) = <<>>) => r.tags = {}
           /\ response'.status = "ok"

C2_ValidImportCreatesTaggedObjects == [][C2_ImportStep]_vars

\* Two rows were imported, one with two tags and one with an empty tags cell
C2_Witness ==
    /\ response.status = "ok"
    /\ response.created = 2
    /\ \E r \in regions : r.tags = ExistingTags
    /\ \E r \in regions : r.tags = {}

(***************************************************************************)
(*                     Claims: REST API model viewset                      *)
(***************************************************************************)

\* The row exists and the user's permission for the action admits it
Covered(row, user, action) ==
    /\ row # NoRow
    /\ row.status \in PermittedStatuses(user, action)

\* The step is a create that saves an object the user's permissions do not cover
CreateNotCovered ==
    /\ reply'.method = "POST"
    /\ \E i \in 1..Len(reply'.payload) :
          reply'.payload[i].status \notin PermittedStatuses(reply'.user, "add")

\* The step is an update of an object the user may change, to values the
\* user's permissions do not cover
UpdateNotCovered ==
    /\ reply'.method \in {"PUT", "PATCH"}
    /\ \A pk \in reply'.pks : Covered(sites[pk], reply'.user, "change")
    /\ "status" \in DOMAIN reply'.payload
    /\ reply'.payload.status \notin PermittedStatuses(reply'.user, "change")

\* C12: when a create or update saves an object that the requesting user's
\* object-level permissions do not cover, the request fails with
\* PermissionDenied (403) and the database, objects and change log alike, is
\* left as it was before the request.
C12_Step ==
    (CreateNotCovered \/ UpdateNotCovered)
    => /\ reply'.status = 403
       /\ sites' = sites
       /\ changelog' = changelog

C12_DeniedSaveRolledBack == [][C12_Step]_vars

\* An update of an existing object, logged when it was created, was denied
C12_Witness ==
    /\ reply.method \in {"PUT", "PATCH"}
    /\ reply.status = 403
    /\ \A pk \in reply.pks : Covered(sites[pk], reply.user, "change")
    /\ changelog # <<>>

\* A list of two objects was posted, the first covered and saved, the second
\* not, and the request was denied
C12_ListDenied ==
    /\ reply.method = "POST"
    /\ reply.status = 403
    /\ Len(reply.payload) = 2
    /\ reply.payload[1].status \in PermittedStatuses(reply.user, "add")

\* The fields of a row, as the change log records them
Recorded(row) == {[name |-> row.name, status |-> row.status]}

\* The change the step's request logged: the newest row of the change log
Logged == changelog'[Len(changelog')]

\* C13: the ObjectChange of a successful update or destroy has prechange_data
\* equal to the object's state before the request; postchange_data is the
\* object's new state for create and update, and unset for delete.
C13_Step ==
    /\ (reply'.method \in {"PUT", "PATCH"} /\ reply'.status = 200)
       => \E pk \in reply'.pks :
            /\ Len(changelog') = Len(changelog) + 1
            /\ Logged.action = ACTION_UPDATE
            /\ Logged.changed_object_id = pk
            /\ Logged.prechange_data = Recorded(sites[pk])
            /\ Logged.postchange_data = Recorded(sites'[pk])
    /\ (reply'.method = "DELETE" /\ reply'.status = 204)
       => \E pk \in reply'.pks :
            /\ Len(changelog') = Len(changelog) + 1
            /\ Logged.action = ACTION_DELETE
            /\ Logged.changed_object_id = pk
            /\ Logged.prechange_data = Recorded(sites[pk])
            /\ Logged.postchange_data = {}
    /\ (reply'.method = "POST" /\ reply'.status = 201)
       => /\ Len(changelog') = Len(changelog) + Len(reply'.payload)
          /\ \A i \in 1..Len(reply'.payload) :
                LET change == changelog'[Len(changelog) + i]
                IN  /\ change.action = ACTION_CREATE
                    /\ change.changed_object_id \in reply'.pks
                    /\ change.postchange_data = Recorded(sites'[change.changed_object_id])
                    /\ change.postchange_data = {reply'.payload[i]}

C13_SnapshotBeforeChange == [][C13_Step]_vars

\* An update changed an object: its logged states before and after differ
C13_Witness ==
    /\ reply.method \in {"PUT", "PATCH"}
    /\ reply.status = 200
    /\ changelog # <<>>
    /\ changelog[Len(changelog)].action = ACTION_UPDATE
    /\ changelog[Len(changelog)].prechange_data # {}
    /\ changelog[Len(changelog)].prechange_data # changelog[Len(changelog)].postchange_data

\* An object was destroyed: its change holds the state before and none after
C13_Destroyed ==
    /\ reply.method = "DELETE"
    /\ reply.status = 204
    /\ changelog[Len(changelog)].action = ACTION_DELETE
    /\ changelog[Len(changelog)].prechange_data # {}
    /\ changelog[Len(changelog)].postchange_data = {}

(***************************************************************************)
(*                           Claims: filtersets                            *)
(***************************************************************************)

\* The sequence holds each of its elements once
NoDuplicates(rows) ==
    \A i \in 1..Len(rows) : \A j \in 1..Len(rows) : rows[i] = rows[j] => i = j

ExistingTokens == { pk \in TokenPks : tokens[pk] # NoRow }

\* C14: a filter given a list of values returns exactly the objects whose
\* field equals one of the values (for a user's groups: who belongs to one of
\* the listed groups), each once; expires__gte=t returns exactly the tokens
\* with expires >= t and expires__lte=t those with expires <= t; the results of
\* write_enabled=True and write_enabled=False are disjoint and cover all tokens.
C14_FilterResults ==
    /\ listing.param = "username" =>
          /\ NoDuplicates(listing.qs)
          /\ Range(listing.qs) =
               { pk \in UserPks : \E i \in 1..Len(listing.values) :
                                     users[pk].username = listing.values[i] }
    /\ listing.param = "group" =>
          /\ NoDuplicates(listing.qs)
          /\ Range(listing.qs) =
               { pk \in UserPks : \E i \in 1..Len(listing.values) :
                                     listing.values[i] \in users[pk].groups }
    /\ (listing.param = "expires" /\ listing.lookup = "gte") =>
          /\ NoDuplicates(listing.qs)
          /\ Range(listing.qs) =
               { pk \in ExistingTokens : \E e \in tokens[pk].expires : e >= listing.values[1] }
    /\ (listing.param = "expires" /\ listing.lookup = "lte") =>
          /\ NoDuplicates(listing.qs)
          /\ Range(listing.qs) =
               { pk \in ExistingTokens : \E e \in tokens[pk].expires : e <= listing.values[1] }
    /\ listing.param = "write_enabled" =>
          /\ NoDuplicates(listing.qs)
          /\ NoDuplicates(listing.qs_false)
          /\ Range(listing.qs) \cap Range(listing.qs_false) = {}
          /\ Range(listing.qs) \cup Range(listing.qs_false) = ExistingTokens

\* Two groups were listed and a user who belongs to both was returned
C14_Witness ==
    /\ listing.param = "group"
    /\ Len(listing.values) = 2
    /\ listing.values[1] # listing.values[2]
    /\ \E pk \in Range(listing.qs) : Range(listing.values) \subseteq users[pk].groups

\* expires__gte was given the very time a token expires at, and returned it,
\* while another token's expiry lay before it
C14_ExpiresBoundary ==
    /\ listing.param = "expires"
    /\ listing.lookup = "gte"
    /\ \E pk \in Range(listing.qs) : tokens[pk].expires = {listing.values[1]}
    /\ \E pk \in ExistingTokens \ Range(listing.qs) : tokens[pk].expires # {}

\* Tokens of both kinds exist and were split by write_enabled
C14_WriteEnabledSplit ==
    /\ listing.param = "write_enabled"
    /\ listing.qs # <<>>
    /\ listing.qs_false # <<>>

====
